---- MODULE Spec2Model ----
(***************************************************************************)
(* StreamingCaptionApp (src/streaming_caption_app.py): the command         *)
(* handlers start_streaming / stop_streaming, the streaming thread         *)
(* stream_audio, the reconciliation thread run_diarization and the event   *)
(* sink socketio.emit, as interleaved steps over the shared fields.        *)
(*                                                                         *)
(* Threads are numbered by the effective start that created them: stream   *)
(* thread k and diarization thread k belong to session k.  A text is a     *)
(* sequence of one-character strings.  The 'time' field of a transcript    *)
(* entry (time.time()) is never read by the program and is left out.       *)
(*                                                                         *)
(* Commands are handled one at a time; every statement of a handler and of *)
(* a thread that reads or writes a shared field is a step of its own.  A   *)
(* join(timeout=...) returns when the thread has ended, or, by timeout,    *)
(* while the thread is blocked in a call that can outlast the timeout (the *)
(* wait for the next response, time.sleep(10), a request in flight).       *)
(* `events` holds what the sink received since line 354 last ran.          *)
(*                                                                         *)
(* The parts of the program that share no state with StreamingCaptionApp   *)
(* have variables and specifications of their own, further down; each      *)
(* specification leaves the variables of the other parts alone.            *)
(***************************************************************************)
EXTENDS Integers, Sequences, FiniteSets, TLC

(* ------------------------------ bounds --------------------------------- *)
\* start commands received
MaxStarts == 2
\* stop commands received
MaxStops == 1
\* responses (or failures) delivered by the recognition channel, all threads
MaxResponses == 2
\* audio chunks pulled from the microphone generator, all threads
MaxChunks == 1
\* sleeps of run_diarization that end, all threads
MaxTicks == 2
\* exceptions raised inside the try block of run_diarization, per thread
MaxDiarErrors == 1
\* within one session: stop commands received
SessionMaxStops == 2
\* within one session: audio chunks pulled from the microphone generator
SessionMaxChunks == 2
\* start and stop commands sent to WebCaptionApp, calls of recognizer.listen
MaxWebStarts == 2
MaxWebStops == 2
MaxListens == 3
\* frames the device delivers to one MicrophoneStream
MaxFrames == 3

(* ---------------------------- program constants ------------------------ *)
RATE == 16000
CHUNK == RATE \div 10
\* bytes of one device frame: CHUNK 16-bit samples
FrameBytes == CHUNK * 2
\* RATE * 2 * 10: the least length of audio_data that run_diarization accepts
MinDiarizationBytes == RATE * 2 * 10
speaker_colors == <<"#3498db", "#e74c3c", "#2ecc71", "#f39c12", "#9b59b6">>
speaker_names == <<"Speaker 1", "Speaker 2", "Speaker 3", "Speaker 4", "Speaker 5">>

(* ------------------------------- inputs -------------------------------- *)
Sessions == 1..MaxStarts
\* frames coalesced into one chunk by MicrophoneStream.generator
ChunkFrames == {99, 100}
\* transcripts the recognizer returns
Transcripts == { <<"H", "i", " ", "y", "o", "?">> }
\* str(e) of the exceptions the recognition channel raises
ExcTexts == {"unavailable"}
\* what the iterator `responses` delivers: a response, its end, or an exception
Responses ==
    {[kind |-> "end"], [kind |-> "noresults"], [kind |-> "noalt"]}
    \cup {[kind |-> "raise", msg |-> e] : e \in ExcTexts}
    \cup {[kind |-> "result", is_final |-> f, transcript |-> t] :
            f \in BOOLEAN, t \in Transcripts}
\* what client.recognize delivers: an exception, or a response whose last
\* result carries the words with their speaker tags
DiarResponses ==
    {[kind |-> "raise"], [kind |-> "noresults"], [kind |-> "noalt"]}
    \cup {[kind |-> "words", words |-> w] : w \in
            { <<[word |-> <<"Y", "o">>, speaker_tag |-> 2],
                [word |-> <<"h", "i">>, speaker_tag |-> 1]>>,
              <<[word |-> <<"w", "e">>, speaker_tag |-> 3]>> }}

(* --------------------- text helpers of the alignment ------------------- *)
AlnumChars == {"h", "i", "y", "o", "H", "w", "e", "l", "r", "d", "a", "t", "u"}
IsAlnum(c) == c \in AlnumChars
LowerChar(c) == CASE c = "H" -> "h" [] c = "Y" -> "y" [] OTHER -> c
Lower(s) == [i \in 1..Len(s) |-> LowerChar(s[i])]

RECURSIVE SplitAcc(_, _, _, _)
SplitAcc(s, i, cur, acc) ==
    IF i > Len(s)
    THEN IF cur = <<>> THEN acc ELSE Append(acc, cur)
    ELSE IF s[i] = " "
         THEN SplitAcc(s, i + 1, <<>>, IF cur = <<>> THEN acc ELSE Append(acc, cur))
         ELSE SplitAcc(s, i + 1, Append(cur, s[i]), acc)
\* str.split(): the non-empty runs between blanks
Split(s) == SplitAcc(s, 1, <<>>, <<>>)
\* ''.join(c for c in iw if c.isalnum())
Clean(iw) == SelectSeq(iw, IsAlnum)
\* clean_iw[:3]
Prefix3(s) == SubSeq(s, 1, IF Len(s) < 3 THEN Len(s) ELSE 3)
\* w.startswith(p)
StartsWith(w, p) == Len(p) <= Len(w) /\ SubSeq(w, 1, Len(p)) = p

Max2(a, b) == IF a >= b THEN a ELSE b
Min2(a, b) == IF a <= b THEN a ELSE b
WindowAhead(wl, idx) == idx .. (Min2(Len(wl), idx + 20) - 1)
\* range(max(0, word_idx-5), min(len(word_list), word_idx+20)), 0-based
Window(wl, idx) == Max2(0, idx - 5) .. (Min2(Len(wl), idx + 20) - 1)
FirstHitAny(wl, p, idx) ==
    IF Window(wl, idx) = {} THEN -1
    ELSE CHOOSE wi \in Window(wl, idx) : \A o \in Window(wl, idx) : wi <= o
\* the first index of the window whose word starts with p, or -1
FirstHit(wl, p, idx) ==
    LET hits == {wi \in Window(wl, idx) : StartsWith(wl[wi + 1].word, p)}
    IN  IF hits = {} THEN -1 ELSE CHOOSE wi \in hits : \A o \in hits : wi <= o
\* speaker_votes[s] = speaker_votes.get(s, 0) + 1, keys in insertion order
AddVote(votes, s) ==
    IF \E i \in 1..Len(votes) : votes[i].tag = s
    THEN [i \in 1..Len(votes) |->
            IF votes[i].tag = s THEN [tag |-> s, n |-> votes[i].n + 1] ELSE votes[i]]
    ELSE Append(votes, [tag |-> s, n |-> 1])

\* F applied to the value of v, v being computed once
With(v, F(_)) == CHOOSE out \in {F(x) : x \in {v}} : TRUE

\* lines 507-516: one turn of `for iw in item_words`
TokenStep(iw, wl, idx, votes) ==
    With(Clean(iw), LAMBDA clean_iw :
        IF clean_iw = <<>> THEN [votes |-> votes, word_idx |-> idx]
        ELSE With(FirstHit(wl, Prefix3(clean_iw), idx), LAMBDA wi :
                IF wi = -1 THEN [votes |-> votes, word_idx |-> idx]
                ELSE [votes |-> AddVote(votes, wl[wi + 1].speaker),
                      word_idx |-> wi + 1]))

\* lines 506-516: the turns for the tokens from the k-th on
RECURSIVE ScanTokens(_, _, _, _, _)
ScanTokens(toks, k, wl, idx, votes) ==
    IF k > Len(toks) THEN [votes |-> votes, word_idx |-> idx]
    ELSE With(TokenStep(toks[k], wl, idx, votes), LAMBDA st :
            ScanTokens(toks, k + 1, wl, st.word_idx, st.votes))

\* one pass of the inner loops over one transcript entry
AlignItem(text, wl, idx) ==
    With(Split(Lower(text)), LAMBDA toks : ScanTokens(toks, 1, wl, idx, <<>>))
\* max(speaker_votes, key=speaker_votes.get): the first key with the most votes
MaxVoteLast(votes) ==
    LET best == CHOOSE i \in 1..Len(votes) :
                    /\ \A j \in 1..Len(votes) : votes[j].n <= votes[i].n
                    /\ \A j \in (i + 1)..Len(votes) : votes[j].n < votes[i].n
    IN  votes[best].tag
MaxVote(votes) ==
    LET best == CHOOSE i \in 1..Len(votes) :
                    /\ \A j \in 1..Len(votes) : votes[j].n <= votes[i].n
                    /\ \A j \in 1..(i - 1) : votes[j].n < votes[i].n
    IN  votes[best].tag
PaletteIndexRaw(speaker) == speaker % Len(speaker_colors)
\* lines 521-522: (speaker - 1) % len(self.speaker_colors)
PaletteIndex(speaker) == (speaker - 1) % Len(speaker_colors)
\* word_list built from the response's words
BuildWordList(words) ==
    [i \in 1..Len(words) |->
        [word |-> Lower(words[i].word), speaker |-> words[i].speaker_tag]]

RECURSIVE SumSeq(_)
SumSeq(s) == IF s = <<>> THEN 0 ELSE Head(s) + SumSeq(Tail(s))
\* len(b''.join(self.audio_buffer))
AudioLen(buf) == SumSeq(buf)

(* -------------------------------- state -------------------------------- *)
VARIABLES
    is_running,          \* self.is_running
    audio_buffer,        \* self.audio_buffer: the byte length of each chunk
    transcript_buffer,   \* self.transcript_buffer: the list object it is bound to
    lists,               \* the list objects made by start_streaming, by session
    caption_id,          \* self.caption_id
    stream_thread,       \* self.stream_thread: 0 for None, else the thread
    diarization_thread,  \* self.diarization_thread
    hpc,                 \* where the command handler stands
    spc,                 \* where each stream_audio thread stands
    s_transcript,        \* stream_audio: local transcript
    s_caption_id,        \* stream_audio: local caption_id
    s_tmp,               \* stream_audio: the value read by self.caption_id += 1
    s_exc,               \* stream_audio: str(e) of the exception being handled
    dpc,                 \* where each run_diarization thread stands
    processed_captions,  \* run_diarization: local set processed_captions
    audio_len,           \* run_diarization: len(audio_data), -1 before the first
    word_list,           \* run_diarization: local word_list
    word_idx,            \* run_diarization: local word_idx
    item_iter,           \* run_diarization: the iterator of line 498
    events,              \* what socketio.emit delivered since the session began
    diar_calls,          \* calls of client.recognize by run_diarization
    diar_errors,         \* "Diarization error" lines printed, per thread
    stop_pending,        \* a stop command cleared is_running and no start set it since
    late,                \* final/interim events per thread while stop_pending
    off_ticks,           \* ticks each run_diarization began while is_running was
                         \* false, since line 354 last set it
    nstart, nstop, nsess, nresp, nchunk, ntick

\* one call of amplify_audio
VARIABLES
    audio_data,          \* the parameter audio_data: a sequence of bytes
    gain,                \* the parameter gain, as the fraction num / den
    amplified,           \* the bytes returned
    amplify_done         \* the call has returned

\* WebCaptionApp and its process_audio threads
VARIABLES
    web_is_running,      \* self.is_running of WebCaptionApp
    text_queue,          \* self.text_queue
    web_events,          \* what socketio.emit has sent, oldest first
    apc,                 \* where each process_audio thread is
    heard,               \* what listen or recognize_google gave each thread
    nwstart,             \* start commands handled
    nwstop,              \* stop commands handled
    nthread,             \* process_audio threads started
    nlisten              \* calls of recognizer.listen

\* one MicrophoneStream, the thread that opens and closes it, and the thread
\* that consumes its generator
VARIABLES
    closed,              \* self.closed
    stream_active,       \* the device stream calls _fill_buffer
    _buff,               \* self._buff, oldest item first
    mpc,                 \* where the owner of the MicrophoneStream is
    gpc,                 \* where the generator is
    gen_data,            \* the local data of generator
    yielded,             \* the chunks the generator has yielded, oldest first
    pushed,              \* the frames _fill_buffer has put, oldest first
    gpc_at_close         \* where the generator was when closed was set

\* audio_with_buffer of one stream_audio task (lines 392-395), over the
\* generator of its MicrophoneStream
VARIABLES
    audio_list,          \* self.audio_buffer: the chunks, oldest first
    loop_content,        \* the loop variable content
    forwarded,           \* the chunks yielded to the request iterator
    fpc                  \* where audio_with_buffer is

\* the alignment of one tick (lines 497-531), one token at a time
VARIABLES
    a_buffer,            \* the list self.transcript_buffer is bound to
    a_processed,         \* processed_captions
    a_word_list,         \* word_list
    a_word_idx,          \* word_idx
    a_pos,               \* the position of `for item` in the list, from 1
    a_item_words,        \* item_words
    a_k,                 \* the position of `for iw` in item_words, from 1
    a_votes,             \* speaker_votes, keys in insertion order
    a_hits,              \* the hits of the item: timeline index and speaker
    a_updates,           \* the speaker_update events emitted, oldest first
    a_pc                 \* where the alignment is

appVars == <<is_running, audio_buffer, transcript_buffer, lists, caption_id,
             stream_thread, diarization_thread>>
streamVars == <<spc, s_transcript, s_caption_id, s_tmp, s_exc>>
diarVars == <<dpc, processed_captions, audio_len, word_list, word_idx, item_iter>>
sinkVars == <<events, diar_calls, diar_errors>>
stopVars == <<stop_pending, late, off_ticks>>
countVars == <<nstart, nstop, nsess, nresp, nchunk, ntick>>
\* the variables of StreamingCaptionApp
coreVars == <<appVars, streamVars, diarVars, sinkVars, stopVars, countVars, hpc>>
ampVars == <<audio_data, gain, amplified, amplify_done>>
webVars == <<web_is_running, text_queue, web_events, apc, heard, nwstart,
             nwstop, nthread, nlisten>>
micVars == <<closed, stream_active, _buff, mpc, gpc, gen_data, yielded, pushed,
             gpc_at_close>>
alignVars == <<a_buffer, a_processed, a_word_list, a_word_idx, a_pos,
               a_item_words, a_k, a_votes, a_hits, a_updates, a_pc>>
fwdVars == <<audio_list, loop_content, forwarded, fpc>>
vars == <<coreVars, ampVars, webVars, micVars, alignVars, fwdVars>>

NoText == <<>>
Handler == <<"handler", 0>>
StreamTask(s) == <<"stream", s>>
DiarTask(d) == <<"diar", d>>
\* one socketio.emit(type, payload), with the task that called it
Event(type, by, id, text, msg) ==
    [type |-> type, by |-> by, id |-> id, text |-> text, msg |-> msg,
     speaker |-> 0, color |-> "", name |-> ""]
StatusEvent(by, status) == Event("status", by, -1, NoText, status)
\* the list object self.transcript_buffer is bound to (0: the one of __init__)
ListOf(l) == lists[l]

\* StreamingCaptionApp.__init__
CoreInit ==
    /\ is_running = FALSE
    /\ audio_buffer = <<>>
    /\ transcript_buffer = 0
    /\ lists = [k \in 0..MaxStarts |-> <<>>]
    /\ caption_id = 0
    /\ stream_thread = 0
    /\ diarization_thread = 0
    /\ hpc = "idle"
    /\ spc = [s \in Sessions |-> "none"]
    /\ s_transcript = [s \in Sessions |-> NoText]
    /\ s_caption_id = [s \in Sessions |-> -1]
    /\ s_tmp = [s \in Sessions |-> -1]
    /\ s_exc = [s \in Sessions |-> ""]
    /\ dpc = [d \in Sessions |-> "none"]
    /\ processed_captions = [d \in Sessions |-> {}]
    /\ audio_len = [d \in Sessions |-> -1]
    /\ word_list = [d \in Sessions |-> <<>>]
    /\ word_idx = [d \in Sessions |-> 0]
    /\ item_iter = [d \in Sessions |-> [list |-> 0, pos |-> 1]]
    /\ events = <<>>
    /\ diar_calls = 0
    /\ diar_errors = [d \in Sessions |-> 0]
    /\ stop_pending = FALSE
    /\ late = [s \in Sessions |-> 0]
    /\ off_ticks = [d \in Sessions |-> 0]
    /\ nstart = 0 /\ nstop = 0 /\ nsess = 0 /\ nresp = 0 /\ nchunk = 0 /\ ntick = 0

\* no call of amplify_audio is looked at
AmplifyIdle ==
    /\ audio_data = <<>>
    /\ gain = [num |-> 1, den |-> 1]
    /\ amplified = <<>>
    /\ amplify_done = FALSE

\* WebCaptionApp.__init__
WebIdle ==
    /\ web_is_running = FALSE
    /\ text_queue = <<>>
    /\ web_events = <<>>
    /\ apc = [t \in 1..MaxWebStarts |-> "none"]
    /\ heard = [t \in 1..MaxWebStarts |-> "none"]
    /\ nwstart = 0 /\ nwstop = 0 /\ nthread = 0 /\ nlisten = 0

\* MicrophoneStream.__init__, lines 79-84
MicIdle ==
    /\ closed = TRUE
    /\ stream_active = FALSE
    /\ _buff = <<>>
    /\ mpc = "new"
    /\ gpc = "none"
    /\ gen_data = <<>>
    /\ yielded = <<>>
    /\ pushed = <<>>
    /\ gpc_at_close = "none"

\* no alignment is looked at
AlignIdle ==
    /\ a_buffer = <<>>
    /\ a_processed = {}
    /\ a_word_list = <<>>
    /\ a_word_idx = 0
    /\ a_pos = 1
    /\ a_item_words = <<>>
    /\ a_k = 1
    /\ a_votes = <<>>
    /\ a_hits = <<>>
    /\ a_updates = <<>>
    /\ a_pc = "none"

\* audio_with_buffer has not been called; line 355 has emptied audio_buffer
FwdIdle ==
    /\ audio_list = <<>>
    /\ loop_content = <<>>
    /\ forwarded = <<>>
    /\ fpc = "for"

Init == CoreInit /\ AmplifyIdle /\ WebIdle /\ MicIdle /\ AlignIdle /\ FwdIdle

(* -------------------- thread.join(timeout=...) ------------------------- *)
\* a stream thread blocked in a call that can outlast a join timeout:
\* opening the channel, or waiting for the next response
StreamBlocked(s) == spc[s] \in {"init", "wait"}
\* a diarization thread in time.sleep(10) or in client.recognize
DiarBlocked(d) == dpc[d] \in {"sleep", "recognize"}
\* `if t and t.is_alive(): t.join(timeout=2)` returns: there is no thread, the
\* thread has ended, or the timeout expires while the thread is blocked
JoinStreamReturns ==
    IF stream_thread = 0 THEN TRUE
    ELSE spc[stream_thread] = "dead" \/ StreamBlocked(stream_thread)
JoinDiarReturns ==
    IF diarization_thread = 0 THEN TRUE
    ELSE dpc[diarization_thread] = "dead" \/ DiarBlocked(diarization_thread)

(* ------------------------- start_streaming ----------------------------- *)
StartGuardAlways == TRUE
\* line 347: if not self.is_running
StartGuard == ~is_running

\* handle_start -> start_streaming, up to the test of line 347
HandleStart ==
    /\ hpc = "idle"
    /\ nstart < MaxStarts
    /\ nstart' = nstart + 1
    /\ IF StartGuard
       THEN /\ hpc' = "start_join_stream"
            /\ nsess' = nsess + 1
       ELSE UNCHANGED <<hpc, nsess>>
    /\ UNCHANGED <<appVars, streamVars, diarVars, sinkVars, stopVars,
                   nstop, nresp, nchunk, ntick>>

\* lines 349-350
StartJoinStream ==
    /\ hpc = "start_join_stream"
    /\ JoinStreamReturns
    /\ hpc' = "start_join_diar"
    /\ UNCHANGED <<appVars, streamVars, diarVars, sinkVars, stopVars, countVars>>

\* lines 351-352
StartJoinDiar ==
    /\ hpc = "start_join_diar"
    /\ JoinDiarReturns
    /\ hpc' = "start_354"
    /\ UNCHANGED <<appVars, streamVars, diarVars, sinkVars, stopVars, countVars>>

\* line 354: the session begins
Start354 ==
    /\ hpc = "start_354"
    /\ is_running' = TRUE
    /\ events' = <<>>
    /\ stop_pending' = FALSE
    /\ late' = [s \in Sessions |-> 0]
    /\ off_ticks' = [d \in Sessions |-> 0]
    /\ hpc' = "start_355"
    /\ UNCHANGED <<audio_buffer, transcript_buffer, lists, caption_id, stream_thread,
                   diarization_thread, streamVars, diarVars, diar_calls, diar_errors,
                   countVars>>

\* line 355
Start355 ==
    /\ hpc = "start_355"
    /\ audio_buffer' = <<>>
    /\ hpc' = "start_356"
    /\ UNCHANGED <<is_running, transcript_buffer, lists, caption_id, stream_thread,
                   diarization_thread, streamVars, diarVars, sinkVars, stopVars,
                   countVars>>

\* line 356: the field is bound to a new, empty list object
Start356 ==
    /\ hpc = "start_356"
    /\ transcript_buffer' = nsess
    /\ hpc' = "start_357"
    /\ UNCHANGED <<is_running, audio_buffer, lists, caption_id, stream_thread,
                   diarization_thread, streamVars, diarVars, sinkVars, stopVars,
                   countVars>>

\* line 357
Start357 ==
    /\ hpc = "start_357"
    /\ caption_id' = 0
    /\ hpc' = "start_358"
    /\ UNCHANGED <<is_running, audio_buffer, transcript_buffer, lists, stream_thread,
                   diarization_thread, streamVars, diarVars, sinkVars, stopVars,
                   countVars>>

\* line 358
Start358 ==
    /\ hpc = "start_358"
    /\ events' = Append(events, StatusEvent(Handler, "Listening..."))
    /\ hpc' = "start_359"
    /\ UNCHANGED <<appVars, streamVars, diarVars, diar_calls, diar_errors, stopVars,
                   countVars>>

\* lines 359-360
Start359 ==
    /\ hpc = "start_359"
    /\ stream_thread' = nsess
    /\ spc' = [spc EXCEPT ![nsess] = "init"]
    /\ hpc' = "start_362"
    /\ UNCHANGED <<is_running, audio_buffer, transcript_buffer, lists, caption_id,
                   diarization_thread, s_transcript, s_caption_id, s_tmp, s_exc,
                   diarVars, sinkVars, stopVars, countVars>>

\* lines 362-363; run_diarization starts with an empty processed_captions
Start362 ==
    /\ hpc = "start_362"
    /\ diarization_thread' = nsess
    /\ dpc' = [dpc EXCEPT ![nsess] = "loop"]
    /\ processed_captions' = [processed_captions EXCEPT ![nsess] = {}]
    /\ hpc' = "idle"
    /\ UNCHANGED <<is_running, audio_buffer, transcript_buffer, lists, caption_id,
                   stream_thread, streamVars, audio_len, word_list, word_idx,
                   item_iter, sinkVars, stopVars, countVars>>

(* -------------------------- stop_streaming ----------------------------- *)
StopRunningToggle == ~is_running
StopRunningKeeps == is_running
\* line 366: self.is_running = False
StopRunning == FALSE

\* handle_stop -> stop_streaming, line 366, for the first `most` stop commands
HandleStopWithin(most) ==
    /\ hpc = "idle"
    /\ nstop < most
    /\ nstop' = nstop + 1
    /\ is_running' = StopRunning
    /\ stop_pending' = TRUE
    /\ late' = [s \in Sessions |-> 0]
    /\ UNCHANGED off_ticks
    /\ hpc' = "stop_join"
    /\ UNCHANGED <<audio_buffer, transcript_buffer, lists, caption_id, stream_thread,
                   diarization_thread, streamVars, diarVars, sinkVars,
                   nstart, nsess, nresp, nchunk, ntick>>

HandleStop == HandleStopWithin(MaxStops)

\* lines 368-370
StopJoin ==
    /\ hpc = "stop_join"
    /\ JoinStreamReturns
    /\ events' = Append(events, StatusEvent(Handler, "Stopped"))
    /\ hpc' = "idle"
    /\ UNCHANGED <<appVars, streamVars, diarVars, diar_calls, diar_errors, stopVars,
                   countVars>>

(* ---------------------------- stream_audio ----------------------------- *)
\* the thread is inside `with MicrophoneStream(...)`: the microphone is open
InWith(s) == spc[s] \in {"wait", "f418", "f419r", "f419w", "f420", "f425", "i428"}

InsertChunk(buf, content) == <<content>> \o buf
AppendChunkTrimmed(buf, chunk) ==
    IF buf = <<>> THEN <<chunk>> ELSE Append(Tail(buf), chunk)
\* line 394: self.audio_buffer.append(content)
AppendChunk(buf, content) == Append(buf, content)

\* lines 392-395, run by the request iterator of thread s: one chunk of the
\* generator is appended to the list self.audio_buffer is bound to; for the
\* first `most` chunks
AudioWithBufferWithin(s, most) ==
    /\ InWith(s)
    /\ nchunk < most
    /\ nchunk' = nchunk + 1
    /\ \E f \in ChunkFrames : audio_buffer' = AppendChunk(audio_buffer, f * FrameBytes)
    /\ UNCHANGED <<is_running, transcript_buffer, lists, caption_id, stream_thread,
                   diarization_thread, streamVars, diarVars, sinkVars, stopVars,
                   nstart, nstop, nsess, nresp, ntick, hpc>>

AudioWithBuffer(s) == AudioWithBufferWithin(s, MaxChunks)

\* lines 374-402: the client, the microphone and the channel are opened, or fail
StreamInit(s) ==
    /\ spc[s] = "init"
    /\ \/ /\ spc' = [spc EXCEPT ![s] = "wait"]
          /\ UNCHANGED <<s_exc, nresp>>
       \/ /\ nresp < MaxResponses
          /\ nresp' = nresp + 1
          /\ \E e \in ExcTexts : s_exc' = [s_exc EXCEPT ![s] = e]
          /\ spc' = [spc EXCEPT ![s] = "exc"]
    /\ UNCHANGED <<appVars, s_transcript, s_caption_id, s_tmp, diarVars, sinkVars,
                   stopVars, nstart, nstop, nsess, nchunk, ntick, hpc>>

LoopBreakNever == FALSE
\* lines 405-406: if not self.is_running: break
LoopBreak == ~is_running

\* lines 404-417: the next item of `responses`, the tests on it
StreamResponse(s) ==
    /\ spc[s] = "wait"
    /\ \E r \in Responses :
        CASE r.kind = "raise" ->
                /\ s_exc' = [s_exc EXCEPT ![s] = r.msg]
                /\ spc' = [spc EXCEPT ![s] = "exc"]
                /\ UNCHANGED s_transcript
          [] r.kind = "end" ->
                /\ spc' = [spc EXCEPT ![s] = "exit"]
                /\ UNCHANGED <<s_exc, s_transcript>>
          [] r.kind \in {"noresults", "noalt"} ->
                /\ spc' = [spc EXCEPT ![s] = IF LoopBreak THEN "exit" ELSE "wait"]
                /\ UNCHANGED <<s_exc, s_transcript>>
          [] r.kind = "result" ->
                /\ IF LoopBreak
                   THEN /\ spc' = [spc EXCEPT ![s] = "exit"]
                        /\ UNCHANGED s_transcript
                   ELSE /\ spc' = [spc EXCEPT ![s] = IF r.is_final THEN "f418" ELSE "i428"]
                        /\ s_transcript' = [s_transcript EXCEPT ![s] = r.transcript]
                /\ UNCHANGED s_exc
    /\ UNCHANGED <<appVars, s_caption_id, s_tmp, diarVars, sinkVars, stopVars, hpc>>

\* a response delivered while the session may be running
StreamRecv(s) ==
    /\ nresp < MaxResponses
    /\ nresp' = nresp + 1
    /\ StreamResponse(s)
    /\ UNCHANGED <<nstart, nstop, nsess, nchunk, ntick>>

\* a response delivered after is_running was cleared: the recognizer keeps
\* answering the audio it is sent
StreamRecvStopped(s) ==
    /\ ~is_running
    /\ StreamResponse(s)
    /\ UNCHANGED countVars

\* line 418: caption_id = self.caption_id
StreamF418(s) ==
    /\ spc[s] = "f418"
    /\ s_caption_id' = [s_caption_id EXCEPT ![s] = caption_id]
    /\ spc' = [spc EXCEPT ![s] = "f419r"]
    /\ UNCHANGED <<appVars, s_transcript, s_tmp, s_exc, diarVars, sinkVars, stopVars,
                   countVars, hpc>>

\* line 419, self.caption_id += 1: the field is read ...
StreamF419r(s) ==
    /\ spc[s] = "f419r"
    /\ s_tmp' = [s_tmp EXCEPT ![s] = caption_id]
    /\ spc' = [spc EXCEPT ![s] = "f419w"]
    /\ UNCHANGED <<appVars, s_transcript, s_caption_id, s_exc, diarVars, sinkVars,
                   stopVars, countVars, hpc>>

\* ... and written
StreamF419w(s) ==
    /\ spc[s] = "f419w"
    /\ caption_id' = s_tmp[s] + 1
    /\ s_tmp' = [s_tmp EXCEPT ![s] = -1]
    /\ spc' = [spc EXCEPT ![s] = "f420"]
    /\ UNCHANGED <<is_running, audio_buffer, transcript_buffer, lists, stream_thread,
                   diarization_thread, s_transcript, s_caption_id, s_exc, diarVars,
                   sinkVars, stopVars, countVars, hpc>>

NewSegmentFieldId(s) == [id |-> caption_id, text |-> s_transcript[s]]
\* lines 420-424: {'id': caption_id, 'text': transcript, 'time': ...}
NewSegment(s) == [id |-> s_caption_id[s], text |-> s_transcript[s]]

\* lines 420-424: append to the list self.transcript_buffer is bound to
StreamF420(s) ==
    /\ spc[s] = "f420"
    /\ lists' = [lists EXCEPT ![transcript_buffer] = Append(@, NewSegment(s))]
    /\ spc' = [spc EXCEPT ![s] = "f425"]
    /\ UNCHANGED <<is_running, audio_buffer, transcript_buffer, caption_id,
                   stream_thread, diarization_thread, s_transcript, s_caption_id,
                   s_tmp, s_exc, diarVars, sinkVars, stopVars, countVars, hpc>>

\* line 425: emit 'final'; the locals are dead afterwards
StreamF425(s) ==
    /\ spc[s] = "f425"
    /\ events' = Append(events,
                    Event("final", StreamTask(s), s_caption_id[s], s_transcript[s], ""))
    /\ late' = [late EXCEPT ![s] = IF stop_pending THEN @ + 1 ELSE @]
    /\ s_transcript' = [s_transcript EXCEPT ![s] = NoText]
    /\ s_caption_id' = [s_caption_id EXCEPT ![s] = -1]
    /\ spc' = [spc EXCEPT ![s] = "wait"]
    /\ UNCHANGED <<appVars, s_tmp, s_exc, diarVars, diar_calls, diar_errors,
                   stop_pending, off_ticks, countVars, hpc>>

InterimEventNoText(s) == Event("interim", StreamTask(s), -1, NoText, "")
\* line 428: the payload {'text': transcript}
InterimEvent(s) == Event("interim", StreamTask(s), -1, s_transcript[s], "")

\* line 428: emit 'interim'
StreamI428(s) ==
    /\ spc[s] = "i428"
    /\ events' = Append(events, InterimEvent(s))
    /\ late' = [late EXCEPT ![s] = IF stop_pending THEN @ + 1 ELSE @]
    /\ s_transcript' = [s_transcript EXCEPT ![s] = NoText]
    /\ spc' = [spc EXCEPT ![s] = "wait"]
    /\ UNCHANGED <<appVars, s_caption_id, s_tmp, s_exc, diarVars, diar_calls,
                   diar_errors, stop_pending, off_ticks, countVars, hpc>>

ExcEventsNoError(s, e) == <<StatusEvent(StreamTask(s), "Error: " \o e)>>
\* lines 432-433: what the except clause emits
ExcEvents(s, e) ==
    <<Event("error", StreamTask(s), -1, NoText, e),
      StatusEvent(StreamTask(s), "Error: " \o e)>>

\* lines 430-433: except Exception as e
StreamExcept(s) ==
    /\ spc[s] = "exc"
    /\ events' = events \o ExcEvents(s, s_exc[s])
    /\ spc' = [spc EXCEPT ![s] = "exit"]
    /\ UNCHANGED <<appVars, s_transcript, s_caption_id, s_tmp, s_exc, diarVars,
                   diar_calls, diar_errors, stopVars, countVars, hpc>>

\* lines 435-436: the thread ends
StreamExit(s) ==
    /\ spc[s] = "exit"
    /\ is_running' = FALSE
    /\ events' = Append(events, StatusEvent(StreamTask(s), "Stopped"))
    /\ spc' = [spc EXCEPT ![s] = "dead"]
    /\ UNCHANGED <<audio_buffer, transcript_buffer, lists, caption_id, stream_thread,
                   diarization_thread, s_transcript, s_caption_id, s_tmp, s_exc,
                   diarVars, diar_calls, diar_errors, stopVars, countVars, hpc>>

(* --------------------------- run_diarization --------------------------- *)
SpeakerEventAsCaption(d, id, speaker) ==
    [type |-> "final", by |-> DiarTask(d), id |-> id, text |-> NoText,
     msg |-> "", speaker |-> speaker,
     color |-> speaker_colors[PaletteIndex(speaker) + 1],
     name |-> speaker_names[PaletteIndex(speaker) + 1]]
SpeakerEventTagIndex(d, id, speaker) ==
    [type |-> "speaker_update", by |-> DiarTask(d), id |-> id, text |-> NoText,
     msg |-> "", speaker |-> speaker,
     color |-> speaker_colors[(speaker % Len(speaker_colors)) + 1],
     name |-> speaker_names[(speaker % Len(speaker_names)) + 1]]
\* lines 520-529: the payload of speaker_update
SpeakerEvent(d, id, speaker) ==
    [type |-> "speaker_update", by |-> DiarTask(d), id |-> id, text |-> NoText,
     msg |-> "", speaker |-> speaker,
     color |-> speaker_colors[PaletteIndex(speaker) + 1],
     name |-> speaker_names[PaletteIndex(speaker) + 1]]

DiarGuardAlways == TRUE
\* line 443: the test of while self.is_running
DiarGuard == is_running

\* line 443: while self.is_running; audio_data of the last tick is dead here
DiarLoop(d) ==
    /\ dpc[d] = "loop"
    /\ dpc' = [dpc EXCEPT ![d] = IF DiarGuard THEN "sleep" ELSE "dead"]
    /\ audio_len' = [audio_len EXCEPT ![d] = -1]
    /\ UNCHANGED <<appVars, streamVars, processed_captions, word_list,
                   word_idx, item_iter, sinkVars, stopVars, countVars, hpc>>

UnprocessedAll(d) == ListOf(transcript_buffer)
\* line 447: the entries of the ledger whose id is not in processed_captions
Unprocessed(d) ==
    SelectSeq(ListOf(transcript_buffer), LAMBDA t : t.id \notin processed_captions[d])

\* lines 444-449: the sleep ends; skip the tick when nothing is unprocessed
DiarTick(d) ==
    /\ dpc[d] = "sleep"
    /\ dpc' = [dpc EXCEPT ![d] = IF Unprocessed(d) = <<>> THEN "loop" ELSE "audio"]
    /\ off_ticks' = [off_ticks EXCEPT ![d] = IF is_running THEN @ ELSE @ + 1]
    /\ UNCHANGED <<appVars, streamVars, processed_captions, audio_len, word_list,
                   word_idx, item_iter, sinkVars, stop_pending, late, hpc>>

\* a sleep that ends while the session may be running
DiarWake(d) ==
    /\ ntick < MaxTicks
    /\ ntick' = ntick + 1
    /\ DiarTick(d)
    /\ UNCHANGED <<nstart, nstop, nsess, nresp, nchunk>>

\* a sleep that ends after is_running was cleared: time.sleep(10) returns
DiarWakeStopped(d) ==
    /\ ~is_running
    /\ DiarTick(d)
    /\ UNCHANGED countVars

EnoughAudioStrict(n) == n > MinDiarizationBytes
\* line 455: the tick goes on unless len(audio_data) < RATE * 2 * 10
EnoughAudio(n) == ~(n < MinDiarizationBytes)

\* lines 452-457
DiarAudio(d) ==
    /\ dpc[d] = "audio"
    /\ audio_len' = [audio_len EXCEPT ![d] = AudioLen(audio_buffer)]
    /\ dpc' = [dpc EXCEPT ![d] =
                  IF EnoughAudio(AudioLen(audio_buffer)) THEN "recognize" ELSE "loop"]
    /\ UNCHANGED <<appVars, streamVars, processed_captions, word_list, word_idx,
                   item_iter, sinkVars, stopVars, countVars, hpc>>

AfterDiarErrorExit == "dead"
\* lines 535-538: the except clause is inside the while loop, which goes on
AfterDiarError == "loop"

\* lines 459-497: the diarization request and what it returns, out of responses
DiarRecognizeFrom(d, responses) ==
    /\ dpc[d] = "recognize"
    /\ diar_calls' = diar_calls + 1
    /\ \E r \in responses :
        CASE r.kind = "raise" ->
                /\ diar_errors[d] < MaxDiarErrors
                /\ diar_errors' = [diar_errors EXCEPT ![d] = @ + 1]
                /\ dpc' = [dpc EXCEPT ![d] = AfterDiarError]
                /\ UNCHANGED <<word_list, word_idx, item_iter>>
          [] r.kind \in {"noresults", "noalt"} ->
                /\ dpc' = [dpc EXCEPT ![d] = "loop"]
                /\ UNCHANGED <<diar_errors, word_list, word_idx, item_iter>>
          [] r.kind = "words" ->
                /\ word_list' = [word_list EXCEPT ![d] = BuildWordList(r.words)]
                /\ word_idx' = [word_idx EXCEPT ![d] = 0]
                /\ item_iter' = [item_iter EXCEPT ![d] =
                                    [list |-> transcript_buffer, pos |-> 1]]
                /\ dpc' = [dpc EXCEPT ![d] = "align"]
                /\ UNCHANGED diar_errors
    /\ UNCHANGED <<appVars, streamVars, processed_captions, audio_len, events,
                   stopVars, countVars, hpc>>

DiarRecognize(d) == DiarRecognizeFrom(d, DiarResponses)

\* the locals of one tick are dead once the for loop of line 498 is left
EndTick(d) ==
    /\ word_list' = [word_list EXCEPT ![d] = <<>>]
    /\ word_idx' = [word_idx EXCEPT ![d] = 0]
    /\ item_iter' = [item_iter EXCEPT ![d] = [list |-> 0, pos |-> 1]]

\* lines 498-531: one turn of `for item in self.transcript_buffer`, over the
\* list object the loop was started on
DiarAlign(d) ==
    /\ dpc[d] = "align"
    /\ LET buf == ListOf(item_iter[d].list)
           pos == item_iter[d].pos
       IN  IF pos > Len(buf)
           THEN /\ dpc' = [dpc EXCEPT ![d] = "loop"]
                /\ EndTick(d)
                /\ UNCHANGED <<processed_captions, events, diar_errors>>
           ELSE LET item == buf[pos]
                    next == [item_iter EXCEPT ![d].pos = pos + 1]
                IN  IF item.id \in processed_captions[d]
                    THEN /\ item_iter' = next
                         /\ UNCHANGED <<dpc, word_list, word_idx, processed_captions,
                                        events, diar_errors>>
                    ELSE \E r \in {AlignItem(item.text, word_list[d], word_idx[d])} :
                      IF r.votes = <<>>
                      THEN /\ item_iter' = next
                           /\ word_idx' = [word_idx EXCEPT ![d] = r.word_idx]
                           /\ UNCHANGED <<dpc, word_list, processed_captions, events,
                                          diar_errors>>
                      ELSE \/ /\ events' = Append(events,
                                          SpeakerEvent(d, item.id, MaxVote(r.votes)))
                              /\ processed_captions' =
                                    [processed_captions EXCEPT ![d] = @ \cup {item.id}]
                              /\ item_iter' = next
                              /\ word_idx' = [word_idx EXCEPT ![d] = r.word_idx]
                              /\ UNCHANGED <<dpc, word_list, diar_errors>>
                           \/ \* socketio.emit raises: nothing is delivered
                              /\ diar_errors[d] < MaxDiarErrors
                              /\ diar_errors' = [diar_errors EXCEPT ![d] = @ + 1]
                              /\ dpc' = [dpc EXCEPT ![d] = AfterDiarError]
                              /\ EndTick(d)
                              /\ UNCHANGED <<processed_captions, events>>
    /\ UNCHANGED <<appVars, streamVars, audio_len, diar_calls, stopVars, countVars, hpc>>

(* ------------------------------ the system ----------------------------- *)
CoreNext ==
    \/ HandleStart
    \/ StartJoinStream
    \/ StartJoinDiar
    \/ Start354
    \/ Start355
    \/ Start356
    \/ Start357
    \/ Start358
    \/ Start359
    \/ Start362
    \/ HandleStop
    \/ StopJoin
    \/ \E s \in Sessions : AudioWithBuffer(s)
    \/ \E s \in Sessions : StreamInit(s)
    \/ \E s \in Sessions : StreamRecv(s)
    \/ \E s \in Sessions : StreamF418(s)
    \/ \E s \in Sessions : StreamF419r(s)
    \/ \E s \in Sessions : StreamF419w(s)
    \/ \E s \in Sessions : StreamF420(s)
    \/ \E s \in Sessions : StreamF425(s)
    \/ \E s \in Sessions : StreamI428(s)
    \/ \E s \in Sessions : StreamExcept(s)
    \/ \E s \in Sessions : StreamExit(s)
    \/ \E d \in Sessions : DiarLoop(d)
    \/ \E d \in Sessions : DiarWake(d)
    \/ \E d \in Sessions : DiarAudio(d)
    \/ \E d \in Sessions : DiarRecognize(d)
    \/ \E d \in Sessions : DiarAlign(d)

Next == CoreNext /\ UNCHANGED <<ampVars, webVars, micVars, alignVars, fwdVars>>

Spec == Init /\ [][Next]_vars

\* one session: a single effective start, with more stop commands and more
\* audio chunks than Spec allows
SessionNext ==
    /\ \/ CoreNext
       \/ HandleStopWithin(SessionMaxStops)
       \/ \E s \in Sessions : AudioWithBufferWithin(s, SessionMaxChunks)
    /\ nsess' <= 1
    /\ UNCHANGED <<ampVars, webVars, micVars, alignVars, fwdVars>>

SessionSpec == Init /\ [][SessionNext]_vars

\* the steps the command handler takes on its own once a command is accepted
HandlerRun ==
    \/ StartJoinStream \/ StartJoinDiar \/ Start354 \/ Start355 \/ Start356
    \/ Start357 \/ Start358 \/ Start359 \/ Start362 \/ StopJoin
\* the steps stream_audio takes without waiting for the recognizer, and the
\* response it is sent once is_running is false
StreamRun(s) ==
    \/ StreamInit(s) \/ StreamF418(s) \/ StreamF419r(s) \/ StreamF419w(s)
    \/ StreamF420(s) \/ StreamF425(s) \/ StreamI428(s) \/ StreamExcept(s)
    \/ StreamExit(s) \/ StreamRecvStopped(s)
\* the steps run_diarization takes, and the end of its sleep once is_running
\* is false
DiarRun(d) ==
    \/ DiarLoop(d) \/ DiarAudio(d) \/ DiarRecognize(d) \/ DiarAlign(d)
    \/ DiarWakeStopped(d)

\* one session, whose stop command no start follows
LiveNext ==
    /\ \/ CoreNext
       \/ \E s \in Sessions : StreamRecvStopped(s)
       \/ \E d \in Sessions : DiarWakeStopped(d)
    /\ nsess' <= 1
    /\ UNCHANGED <<ampVars, webVars, micVars, alignVars, fwdVars>>

\* a step of the handler or of a thread that needs nothing from outside
Run ==
    /\ (HandlerRun \/ \E k \in Sessions : StreamRun(k) \/ DiarRun(k))
    /\ nsess' <= 1
    /\ UNCHANGED <<ampVars, webVars, micVars, alignVars, fwdVars>>

\* while some thread can run, some thread does; commands, audio chunks and
\* the responses of a running session may stay away for ever
LiveSpec == Init /\ [][LiveNext]_vars /\ WF_vars(Run)

(* ------------------- one session's reconciliation ticks ---------------- *)
\* the final text "hello world" and the word "we"
HelloWorld == <<"h", "e", "l", "l", "o", " ", "w", "o", "r", "l", "d">>
We == <<"w", "e">>
\* the Transcript Ledger of the session when its ticks are looked at
TickLedgers ==
    { <<[id |-> 0, text |-> HelloWorld]>>,
      <<[id |-> 0, text |-> We], [id |-> 1, text |-> HelloWorld]>> }
\* n words "we" of speaker 3, then "hello" of speaker a and "world" of speaker b
Timeline(n, a, b) ==
    [i \in 1..(n + 2) |->
        IF i <= n THEN [word |-> We, speaker_tag |-> 3]
        ELSE IF i = n + 1 THEN [word |-> SubSeq(HelloWorld, 1, 5), speaker_tag |-> a]
        ELSE [word |-> SubSeq(HelloWorld, 7, 11), speaker_tag |-> b]]
\* what client.recognize delivers in these ticks
TickResponses ==
    {[kind |-> "raise"], [kind |-> "noresults"], [kind |-> "noalt"]}
    \cup {[kind |-> "words", words |-> w] : w \in
            { Timeline(0, 1, 1), Timeline(0, 7, 7), Timeline(0, 1, 2),
              Timeline(19, 1, 1), Timeline(20, 1, 1) }}

\* a session after start_streaming and the final results of its ledger,
\* with one coalesced chunk of audio buffered
TickInit ==
    /\ AmplifyIdle /\ WebIdle /\ MicIdle /\ AlignIdle /\ FwdIdle
    /\ is_running = TRUE
    /\ \E f \in ChunkFrames : audio_buffer = <<f * FrameBytes>>
    /\ transcript_buffer = 1
    /\ \E ledger \in TickLedgers :
          /\ lists = [k \in 0..MaxStarts |-> IF k = 1 THEN ledger ELSE <<>>]
          /\ caption_id = Len(ledger)
          /\ nresp = Len(ledger)
          /\ events = <<StatusEvent(Handler, "Listening...")>> \o
                        [i \in 1..Len(ledger) |->
                            Event("final", StreamTask(1), ledger[i].id,
                                  ledger[i].text, "")]
    /\ stream_thread = 1
    /\ diarization_thread = 1
    /\ hpc = "idle"
    /\ spc = [s \in Sessions |-> IF s = 1 THEN "wait" ELSE "none"]
    /\ s_transcript = [s \in Sessions |-> NoText]
    /\ s_caption_id = [s \in Sessions |-> -1]
    /\ s_tmp = [s \in Sessions |-> -1]
    /\ s_exc = [s \in Sessions |-> ""]
    /\ dpc = [d \in Sessions |-> IF d = 1 THEN "sleep" ELSE "none"]
    /\ processed_captions = [d \in Sessions |-> {}]
    /\ audio_len = [d \in Sessions |-> -1]
    /\ word_list = [d \in Sessions |-> <<>>]
    /\ word_idx = [d \in Sessions |-> 0]
    /\ item_iter = [d \in Sessions |-> [list |-> 0, pos |-> 1]]
    /\ diar_calls = 0
    /\ diar_errors = [d \in Sessions |-> 0]
    /\ stop_pending = FALSE
    /\ late = [s \in Sessions |-> 0]
    /\ off_ticks = [d \in Sessions |-> 0]
    /\ nstart = 1 /\ nstop = 0 /\ nsess = 1 /\ nchunk = 1 /\ ntick = 0

\* the steps of run_diarization, the rest of the program standing still
TickNext ==
    /\ \/ \E d \in Sessions : DiarLoop(d)
       \/ \E d \in Sessions : DiarWake(d)
       \/ \E d \in Sessions : DiarAudio(d)
       \/ \E d \in Sessions : DiarRecognizeFrom(d, TickResponses)
       \/ \E d \in Sessions : DiarAlign(d)
    /\ UNCHANGED <<ampVars, webVars, micVars, alignVars, fwdVars>>

TickSpec == TickInit /\ [][TickNext]_vars

(* ------------------ the alignment, one token at a time ----------------- *)
\* the Transcript Ledger the alignment runs over
AlignLedgers ==
    LET seg(i, t) == [id |-> i, text |-> t]
        HiYo == <<"H", "i", " ", "y", "o", "?">>
        YoHi == <<"y", "o", " ", "h", "i">>
        HiYoYo == <<"H", "i", " ", "y", "o", "?", " ", "y", "o">>
        WorldHello == <<"w", "o", "r", "l", "d", " ", "h", "e", "l", "l", "o">>
    IN  { <<seg(0, HiYo)>>, <<seg(0, YoHi)>>, <<seg(0, HiYoYo)>>,
          <<seg(0, HelloWorld)>>, <<seg(0, WorldHello)>>,
          <<seg(0, We), seg(1, HelloWorld)>>,
          <<seg(0, HelloWorld), seg(1, We)>>,
          <<seg(0, <<"h", "e">>), seg(1, <<"?", " ", "h", "i">>)>>,
          <<seg(0, <<"?">>), seg(1, <<"a">>)>> }
\* the words of the diarization response
AlignTimelines ==
    { <<[word |-> <<"Y", "o">>, speaker_tag |-> 2],
        [word |-> <<"h", "i">>, speaker_tag |-> 1]>>,
      <<[word |-> <<"h", "e">>, speaker_tag |-> 0],
        [word |-> SubSeq(HelloWorld, 1, 5), speaker_tag |-> 6]>>,
      <<[word |-> <<"h", "i">>, speaker_tag |-> -1],
        [word |-> <<"a", "t">>, speaker_tag |-> 10]>>,
      Timeline(0, 1, 1), Timeline(19, 1, 1), Timeline(20, 1, 1) }

\* line 496 is reached: word_list is built, some segments were resolved by
\* earlier ticks
AlignInit ==
    /\ CoreInit /\ AmplifyIdle /\ WebIdle /\ MicIdle /\ FwdIdle
    /\ a_buffer \in AlignLedgers
    /\ a_processed \in SUBSET {a_buffer[i].id : i \in 1..Len(a_buffer)}
    /\ \E words \in AlignTimelines : a_word_list = BuildWordList(words)
    /\ a_word_idx = -1
    /\ a_pos = 1
    /\ a_item_words = <<>>
    /\ a_k = 1
    /\ a_votes = <<>>
    /\ a_hits = <<>>
    /\ a_updates = <<>>
    /\ a_pc = "start"

\* line 497: word_idx = 0, and the for loop of line 498 begins
AlignStart ==
    /\ a_pc = "start"
    /\ a_word_idx' = 0
    /\ a_pos' = 1
    /\ a_pc' = "for"
    /\ UNCHANGED <<a_buffer, a_processed, a_word_list, a_item_words, a_k, a_votes,
                   a_hits, a_updates>>

\* lines 498-503: the next item; a processed one is skipped
AlignFor ==
    /\ a_pc = "for"
    /\ IF a_pos > Len(a_buffer)
       THEN /\ a_pc' = "done"
            /\ UNCHANGED <<a_pos, a_item_words, a_k, a_votes, a_hits>>
       ELSE IF a_buffer[a_pos].id \in a_processed
            THEN /\ a_pos' = a_pos + 1
                 /\ UNCHANGED <<a_pc, a_item_words, a_k, a_votes, a_hits>>
            ELSE /\ a_item_words' = Split(Lower(a_buffer[a_pos].text))
                 /\ a_votes' = <<>>
                 /\ a_hits' = <<>>
                 /\ a_k' = 1
                 /\ a_pc' = "word"
                 /\ UNCHANGED a_pos
    /\ UNCHANGED <<a_buffer, a_processed, a_word_list, a_word_idx, a_updates>>

\* lines 506-516: one turn of `for iw in item_words`
AlignWord ==
    /\ a_pc = "word"
    /\ IF a_k > Len(a_item_words)
       THEN /\ a_pc' = "vote"
            /\ UNCHANGED <<a_k, a_votes, a_hits, a_word_idx>>
       ELSE \E st \in {TokenStep(a_item_words[a_k], a_word_list, a_word_idx, a_votes)} :
              /\ a_votes' = st.votes
              /\ a_word_idx' = st.word_idx
              /\ a_hits' = IF st.votes = a_votes THEN a_hits
                           ELSE Append(a_hits,
                                  [wi |-> st.word_idx - 1,
                                   speaker |-> a_word_list[st.word_idx].speaker])
              /\ a_k' = a_k + 1
              /\ UNCHANGED a_pc
    /\ UNCHANGED <<a_buffer, a_processed, a_word_list, a_pos, a_item_words, a_updates>>

\* lines 518-531: the update of an item that got votes, unless emit raises
AlignVote ==
    /\ a_pc = "vote"
    /\ IF a_votes = <<>>
       THEN /\ a_pos' = a_pos + 1
            /\ a_pc' = "for"
            /\ UNCHANGED <<a_updates, a_processed>>
       ELSE \/ /\ a_updates' = Append(a_updates,
                       SpeakerEvent(1, a_buffer[a_pos].id, MaxVote(a_votes)))
               /\ a_processed' = a_processed \cup {a_buffer[a_pos].id}
               /\ a_pos' = a_pos + 1
               /\ a_pc' = "for"
            \/ /\ a_pc' = "done"
               /\ UNCHANGED <<a_updates, a_processed, a_pos>>
    /\ UNCHANGED <<a_buffer, a_word_list, a_word_idx, a_item_words, a_k, a_votes,
                   a_hits>>

AlignNext ==
    /\ \/ AlignStart
       \/ AlignFor
       \/ AlignWord
       \/ AlignVote
    /\ UNCHANGED <<coreVars, ampVars, webVars, micVars, fwdVars>>

AlignSpec == AlignInit /\ [][AlignNext]_vars

(* ---------------------------- amplify_audio --------------------------- *)
\* samples per call
MaxSamples == 2

\* the samples a device frame is made of
Samples == {-32768, -10923, -10922, 0, 1, 10922, 10923, 32767}
\* gains: 3.0 is the GAIN of line 58
Gains == {[num |-> n, den |-> d] : n \in {-1, 0, 1, 3}, d \in {1, 2}}

\* a 16-bit pattern read as a signed number
ToSigned16(u) == IF u >= 32768 THEN u - 65536 ELSE u
\* struct.unpack('<{n}h', bytes): little-endian signed 16-bit samples
Unpack(bytes) ==
    [i \in 1..(Len(bytes) \div 2) |->
        ToSigned16(bytes[2 * i - 1] + 256 * bytes[2 * i])]
\* struct.pack('<{n}h', *samples), for samples within the 16-bit range
Pack(samples) ==
    [j \in 1..(2 * Len(samples)) |->
        LET u == samples[(j + 1) \div 2] % 65536
        IN  IF j % 2 = 1 THEN u % 256 ELSE u \div 256]
\* int(sample * gain): the product, truncated toward zero
IntProduct(sample, g) ==
    LET n == sample * g.num
    IN  IF (n >= 0) = (g.den > 0) THEN n \div g.den ELSE -((-n) \div g.den)

WrapSample(x) == ToSigned16(x % 65536)
\* line 71: max(-32768, min(32767, new_sample))
Clip(x) == Max2(-32768, Min2(32767, x))

\* lines 62-74
amplify_audio(data, g) ==
    LET samples == Unpack(data)
    IN  Pack([i \in 1..Len(samples) |-> Clip(IntProduct(samples[i], g))])

\* the frames amplify_audio may be given: up to MaxSamples samples, packed
AmplifyInputs ==
    {Pack(ss) : ss \in UNION {[1..n -> Samples] : n \in 0..MaxSamples}}

AmplifyInit ==
    /\ CoreInit
    /\ WebIdle
    /\ MicIdle
    /\ AlignIdle
    /\ FwdIdle
    /\ audio_data \in AmplifyInputs
    /\ gain \in Gains
    /\ amplified = <<>>
    /\ amplify_done = FALSE

\* amplified = amplify_audio(in_data, self._gain), line 108
AmplifyCall ==
    /\ ~amplify_done
    /\ amplified' = amplify_audio(audio_data, gain)
    /\ amplify_done' = TRUE
    /\ UNCHANGED <<audio_data, gain, coreVars, webVars, micVars, alignVars, fwdVars>>

AmplifySpec == AmplifyInit /\ [][AmplifyCall]_vars

(* ------------- WebCaptionApp and CaptionApp: process_audio ------------- *)
\* CaptionApp.process_audio (caption_app.py, lines 149-182) is the same loop
\* with other timeouts; its window shows what update_gui takes off text_queue
\* where WebCaptionApp emits a `caption` event.
WebWorkers == 1..MaxWebStarts
\* what recognize_google returns, after enhance_with_claude where it is used
WebTexts == {"hello"}
\* recognizer.listen returns audio or raises
ListenOutcomes == {"audio", "WaitTimeoutError", "Exception"}
\* recognize_google returns a text or raises
RecognizeOutcomes == WebTexts \cup {"UnknownValueError", "RequestError", "Exception"}

WebEvent(type, text) == [type |-> type, text |-> text]

HandledEveryError(outcome, q) ==
    CASE outcome \in WebTexts -> Append(q, outcome)
      [] outcome = "RequestError" -> Append(q, "API Error")
      [] outcome = "WaitTimeoutError" -> q
      [] OTHER -> Append(q, "Error")
\* lines 315-338: text_queue after the try statement, by what was heard
Handled(outcome, q) ==
    CASE outcome \in WebTexts -> Append(q, outcome)
      [] outcome = "UnknownValueError" -> q
      [] outcome = "RequestError" -> Append(q, "API Error")
      [] outcome = "WaitTimeoutError" -> q
      [] OTHER -> Append(q, "Error")

\* lines 278-286, from handle_start
WebStart ==
    /\ nwstart < MaxWebStarts
    /\ nwstart' = nwstart + 1
    /\ IF ~web_is_running
       THEN /\ web_is_running' = TRUE
            /\ web_events' = Append(web_events, WebEvent("status", "Listening..."))
            /\ nthread' = nthread + 1
            /\ apc' = [apc EXCEPT ![nthread + 1] = "while"]
       ELSE UNCHANGED <<web_is_running, web_events, nthread, apc>>
    /\ UNCHANGED <<text_queue, heard, nwstop, nlisten, coreVars, ampVars, micVars, alignVars, fwdVars>>

\* lines 288-291, from handle_stop
WebStop ==
    /\ nwstop < MaxWebStops
    /\ nwstop' = nwstop + 1
    /\ web_is_running' = FALSE
    /\ web_events' = Append(web_events, WebEvent("status", "Stopped"))
    /\ UNCHANGED <<text_queue, apc, heard, nwstart, nthread, nlisten, coreVars,
                   ampVars, micVars, alignVars, fwdVars>>

\* line 301: while self.is_running
AudioWhile(t) ==
    /\ apc[t] = "while"
    /\ apc' = [apc EXCEPT ![t] = IF web_is_running THEN "listen" ELSE "dead"]
    /\ UNCHANGED <<web_is_running, text_queue, web_events, heard, nwstart, nwstop,
                   nthread, nlisten, coreVars, ampVars, micVars, alignVars, fwdVars>>

\* lines 303-306: with self.microphone: audio = self.recognizer.listen(...)
AudioListen(t) ==
    /\ apc[t] = "listen"
    /\ nlisten < MaxListens
    /\ nlisten' = nlisten + 1
    /\ \E o \in ListenOutcomes :
          /\ heard' = [heard EXCEPT ![t] = o]
          /\ apc' = [apc EXCEPT ![t] = IF o = "audio" THEN "recognize" ELSE "handle"]
    /\ UNCHANGED <<web_is_running, text_queue, web_events, nwstart, nwstop,
                   nthread, coreVars, ampVars, micVars, alignVars, fwdVars>>

\* lines 309-312: recognize_google (in CaptionApp, lines 159-165, followed by
\* enhance_with_claude when it is used)
AudioRecognize(t) ==
    /\ apc[t] = "recognize"
    /\ \E o \in RecognizeOutcomes : heard' = [heard EXCEPT ![t] = o]
    /\ apc' = [apc EXCEPT ![t] = "handle"]
    /\ UNCHANGED <<web_is_running, text_queue, web_events, nwstart, nwstop,
                   nthread, nlisten, coreVars, ampVars, micVars, alignVars, fwdVars>>

\* lines 315-338: text_queue.put of the text, or the except clause that
\* catches what was raised; then back to the while
AudioHandle(t) ==
    /\ apc[t] = "handle"
    /\ text_queue' = Handled(heard[t], text_queue)
    /\ apc' = [apc EXCEPT ![t] = "while"]
    /\ UNCHANGED <<web_is_running, web_events, heard, nwstart, nwstop, nthread,
                   nlisten, coreVars, ampVars, micVars, alignVars, fwdVars>>

\* lines 256-264: emit_captions takes one text off the queue and emits it
EmitCaptions ==
    /\ text_queue # <<>>
    /\ web_events' = Append(web_events, WebEvent("caption", Head(text_queue)))
    /\ text_queue' = Tail(text_queue)
    /\ UNCHANGED <<web_is_running, apc, heard, nwstart, nwstop, nthread, nlisten,
                   coreVars, ampVars, micVars, alignVars, fwdVars>>

WebNext ==
    \/ WebStart
    \/ WebStop
    \/ \E t \in WebWorkers : AudioWhile(t)
    \/ \E t \in WebWorkers : AudioListen(t)
    \/ \E t \in WebWorkers : AudioRecognize(t)
    \/ \E t \in WebWorkers : AudioHandle(t)
    \/ EmitCaptions

WebSpec == Init /\ [][WebNext]_vars

(* --------------------------- MicrophoneStream -------------------------- *)
\* the item None of the queue
Sentinel == [kind |-> "None"]
\* the item made of the bytes b
Bytes(b) == [kind |-> "bytes", bytes |-> b]
\* the amplified frame of the k-th callback
Frame(k) == <<k>>
JoinLast(chunks) == IF chunks = <<>> THEN <<>> ELSE chunks[Len(chunks)]
RECURSIVE Join(_)
\* b"".join(chunks)
Join(chunks) == IF chunks = <<>> THEN <<>> ELSE Head(chunks) \o Join(Tail(chunks))

\* lines 86-97: __enter__
MicEnter ==
    /\ mpc = "new"
    /\ stream_active' = TRUE
    /\ closed' = FALSE
    /\ mpc' = "open"
    /\ UNCHANGED <<_buff, gpc, gen_data, yielded, pushed, gpc_at_close>>

\* lines 100-101 of __exit__: stop_stream and close end the callbacks
MicExitStop ==
    /\ mpc = "streaming"
    /\ stream_active' = FALSE
    /\ mpc' = "stopped"
    /\ UNCHANGED <<closed, _buff, gpc, gen_data, yielded, pushed, gpc_at_close>>

\* line 102 of __exit__
MicExitClosed ==
    /\ mpc = "stopped"
    /\ closed' = TRUE
    /\ gpc_at_close' = gpc
    /\ mpc' = "closed"
    /\ UNCHANGED <<stream_active, _buff, gpc, gen_data, yielded, pushed>>

ExitPutNothing(q) == q
\* line 103: self._buff.put(None)
ExitPut(q) == Append(q, Sentinel)

\* lines 103-104 of __exit__
MicExitPut ==
    /\ mpc = "closed"
    /\ _buff' = ExitPut(_buff)
    /\ mpc' = "exited"
    /\ UNCHANGED <<closed, stream_active, gpc, gen_data, yielded, pushed, gpc_at_close>>

\* lines 106-110: one callback of the device
FillBuffer ==
    /\ stream_active
    /\ Len(pushed) < MaxFrames
    /\ _buff' = Append(_buff, Bytes(Frame(Len(pushed) + 1)))
    /\ pushed' = Append(pushed, Frame(Len(pushed) + 1))
    /\ UNCHANGED <<closed, stream_active, mpc, gpc, gen_data, yielded, gpc_at_close>>

\* line 390: stream.generator() makes the generator, which has not run yet
GenCreate ==
    /\ mpc = "open"
    /\ mpc' = "streaming"
    /\ gpc' = "yield"
    /\ UNCHANGED <<closed, stream_active, _buff, gen_data, yielded, pushed,
                   gpc_at_close>>

\* the consumer asks for the next chunk; line 113: while not self.closed
GenNext ==
    /\ gpc = "yield"
    /\ gpc' = IF closed THEN "done" ELSE "get"
    /\ UNCHANGED <<closed, stream_active, _buff, mpc, gen_data, yielded, pushed,
                   gpc_at_close>>

\* lines 114-117: the blocking get returns once the queue has an item
GenGet ==
    /\ gpc = "get"
    /\ _buff # <<>>
    /\ _buff' = Tail(_buff)
    /\ IF Head(_buff) = Sentinel
       THEN gpc' = "done" /\ gen_data' = <<>>
       ELSE gpc' = "drain" /\ gen_data' = <<Head(_buff).bytes>>
    /\ UNCHANGED <<closed, stream_active, mpc, yielded, pushed, gpc_at_close>>

\* lines 119-128: one get(block=False) of the drain; on queue.Empty the
\* chunks collected are joined and yielded
GenDrain ==
    /\ gpc = "drain"
    /\ IF _buff = <<>>
       THEN /\ yielded' = Append(yielded, Join(gen_data))
            /\ gpc' = "yield"
            /\ gen_data' = <<>>
            /\ UNCHANGED _buff
       ELSE /\ _buff' = Tail(_buff)
            /\ IF Head(_buff) = Sentinel
               THEN gpc' = "done" /\ gen_data' = <<>>
               ELSE gpc' = "drain" /\ gen_data' = Append(gen_data, Head(_buff).bytes)
            /\ UNCHANGED yielded
    /\ UNCHANGED <<closed, stream_active, mpc, pushed, gpc_at_close>>

MicNext ==
    /\ \/ MicEnter
       \/ MicExitStop
       \/ MicExitClosed
       \/ MicExitPut
       \/ FillBuffer
       \/ GenCreate
       \/ GenNext
       \/ GenGet
       \/ GenDrain
    /\ UNCHANGED <<coreVars, ampVars, webVars, alignVars, fwdVars>>

MicSpec == Init /\ [][MicNext]_vars

\* the generator runs whenever it can: line 393 iterates it until it ends,
\* a get returns once the queue has an item, a drain step needs nothing;
\* the owner may stay in the with block for ever
GenRun ==
    /\ (GenNext \/ GenGet \/ GenDrain)
    /\ UNCHANGED <<coreVars, ampVars, webVars, alignVars, fwdVars>>

MicLiveSpec == Init /\ [][MicNext]_vars /\ WF_vars(GenRun)

(* -------------------------- audio_with_buffer -------------------------- *)
\* line 393: the for loop asks the generator for its next chunk
FwdPull ==
    /\ fpc = "for"
    /\ GenNext
    /\ fpc' = "next"
    /\ UNCHANGED <<audio_list, loop_content, forwarded>>

\* lines 393-394: the generator has yielded a chunk, which is appended to
\* audio_buffer, or it has ended, which ends the for loop
FwdAppend ==
    /\ fpc = "next"
    /\ gpc \in {"yield", "done"}
    /\ IF gpc = "done"
       THEN /\ fpc' = "done"
            /\ UNCHANGED <<audio_list, loop_content>>
       ELSE /\ loop_content' = yielded[Len(yielded)]
            /\ audio_list' = AppendChunk(audio_list, yielded[Len(yielded)])
            /\ fpc' = "yield"
    /\ UNCHANGED <<forwarded, micVars>>

\* line 395: yield content, which becomes the next request
FwdYield ==
    /\ fpc = "yield"
    /\ forwarded' = Append(forwarded, loop_content)
    /\ fpc' = "for"
    /\ UNCHANGED <<audio_list, loop_content, micVars>>

\* one stream_audio task: its MicrophoneStream and its audio_with_buffer
FwdNext ==
    /\ \/ (MicEnter /\ UNCHANGED fwdVars)
       \/ (MicExitStop /\ UNCHANGED fwdVars)
       \/ (MicExitClosed /\ UNCHANGED fwdVars)
       \/ (MicExitPut /\ UNCHANGED fwdVars)
       \/ (FillBuffer /\ UNCHANGED fwdVars)
       \/ (GenCreate /\ UNCHANGED fwdVars)
       \/ (GenGet /\ UNCHANGED fwdVars)
       \/ (GenDrain /\ UNCHANGED fwdVars)
       \/ FwdPull
       \/ FwdAppend
       \/ FwdYield
    /\ UNCHANGED <<coreVars, ampVars, webVars, alignVars>>

FwdSpec == Init /\ [][FwdNext]_vars

(* ------------------------------- claims -------------------------------- *)
\* the tokens of a segment's text that can vote
VotingTokens(text) ==
    {Clean(iw) : iw \in {Split(Lower(text))[k] : k \in 1..Len(Split(Lower(text)))}}
        \ {<<>>}
\* the 0-based indices of the timeline words token t matches
MatchesOf(t, wl) == {wi \in 0..(Len(wl) - 1) : StartsWith(wl[wi + 1].word, Prefix3(t))}
\* the align step of thread d looks at an unprocessed segment and no emit raises
AlignsUnprocessed(d) ==
    /\ dpc[d] = "align"
    /\ item_iter'[d].pos = item_iter[d].pos + 1
    /\ item_iter[d].pos <= Len(ListOf(item_iter[d].list))
    /\ ListOf(item_iter[d].list)[item_iter[d].pos].id \notin processed_captions[d]
\* every token of the segment matches a timeline word, and all the words its
\* tokens match have speaker s
AllMatchSpeaker(text, wl, s) ==
    /\ VotingTokens(text) # {}
    /\ \A t \in VotingTokens(text) :
          /\ MatchesOf(t, wl) # {}
          /\ \A wi \in MatchesOf(t, wl) : wl[wi + 1].speaker = s
\* the step emits one speaker_update for the segment, with speaker s and the
\* color and name of s, and marks the segment processed
ResolvesAs(d, id, s) ==
    /\ Len(events') = Len(events) + 1
    /\ SubSeq(events', 1, Len(events)) = events
    /\ events'[Len(events')].type = "speaker_update"
    /\ events'[Len(events')].id = id
    /\ events'[Len(events')].speaker = s
    /\ events'[Len(events')].color = speaker_colors[((s - 1) % 5) + 1]
    /\ events'[Len(events')].name = speaker_names[((s - 1) % 5) + 1]
    /\ processed_captions'[d] = processed_captions[d] \cup {id}
IsType(e, type) == e.type = type
Finals == SelectSeq(events, LAMBDA e : IsType(e, "final"))
Alive(pc) == pc \notin {"none", "dead"}

\* C1: within one session the ids carried by successive `final` events are
\* 0, 1, 2, ...: the i-th final event of the session carries id i-1.
C1_FinalIdsCountUp ==
    \A i \in 1..Len(Finals) : Finals[i].id = i - 1

\* C2: a `speaker_update` event for id N is never emitted before the `final`
\* event for N: every speaker_update in the session's events is preceded by a
\* final event with the same id.
C2_UpdateNeverBeforeFinal ==
    \A j \in 1..Len(events) :
        IsType(events[j], "speaker_update") =>
            \E i \in 1..(j - 1) :
                IsType(events[i], "final") /\ events[i].id = events[j].id

\* C3: within a session no segment id is the subject of more than one
\* `speaker_update` event.
C3_AtMostOneUpdatePerId ==
    \A i, j \in 1..Len(events) :
        (i < j /\ IsType(events[i], "speaker_update")
               /\ IsType(events[j], "speaker_update"))
            => events[i].id # events[j].id

\* C4 (as claimed): once a stop command has set is_running to false, no
\* `final` and no `interim` event is emitted until a later start.
C4_NoTranscriptEventAfterStop ==
    \A s \in Sessions : late[s] = 0

\* C4 (amended): once a stop command has set is_running to false, each
\* streaming task emits at most one more `final` or `interim` event until a
\* later start: the one for the response whose is_running test it had passed.
C4_AtMostOneEventAfterStop ==
    \A s \in Sessions : late[s] <= 1

C4_Witness ==
    \E s \in Sessions : stop_pending /\ late[s] = 1

\* C5: when start_streaming resets audio_buffer, transcript_buffer and
\* caption_id (it is about to run line 355, 356 or 357), no stream thread and
\* no diarization thread of a previous session is alive.
C5_NoThreadAliveAtReset ==
    hpc \in {"start_355", "start_356", "start_357"} =>
        \A k \in Sessions : ~Alive(spc[k]) /\ ~Alive(dpc[k])

\* C6: an effective start leaves caption_id = 0, audio_buffer and
\* transcript_buffer empty and is_running true, from the end of the reset until
\* the first step of one of the new session's tasks.
C6_StartLeavesFreshSession ==
    (\/ hpc \in {"start_358", "start_359"}
     \/ (hpc = "start_362" /\ spc[nsess] = "init"))
        => /\ caption_id = 0
           /\ audio_buffer = <<>>
           /\ ListOf(transcript_buffer) = <<>>
           /\ is_running

\* C7: a tick that finds fewer than 320000 bytes in the concatenated
\* audio_buffer goes back to the head of the loop without a diarization
\* request, without an event and without a new processed id; a tick that finds
\* 320000 bytes or more goes on to the request.
C7_ShortAudioSkipsTick ==
    [][\A d \in Sessions :
         (dpc[d] = "audio" /\ dpc'[d] # "audio") =>
            IF AudioLen(audio_buffer) < 320000
            THEN /\ dpc'[d] = "loop"
                 /\ diar_calls' = diar_calls
                 /\ events' = events
                 /\ processed_captions' = processed_captions
            ELSE dpc'[d] = "recognize"]_vars

C7_Witness ==
    \E d \in Sessions :
        dpc[d] = "loop" /\ audio_len[d] >= 0 /\ audio_len[d] < 320000

\* C8: when the recognition channel raises, the stream thread leaves the
\* response loop for good, emits an `error` event with the exception's text,
\* and ends by setting is_running false and emitting `status: Stopped` as its
\* last event; it emits no `final` or `interim` after the `error` event.
C8_ChannelErrorEndsTask ==
    /\ [][\A s \in Sessions :
            /\ spc[s] = "exc" => spc'[s] \in {"exc", "exit"}
            /\ (spc[s] = "exc" /\ spc'[s] = "exit") =>
                  /\ Len(events') = Len(events) + 2
                  /\ SubSeq(events', 1, Len(events)) = events
                  /\ events'[Len(events) + 1].type = "error"
                  /\ events'[Len(events) + 1].by = StreamTask(s)
                  /\ events'[Len(events) + 1].msg = s_exc[s]
            /\ spc[s] = "exit" => spc'[s] \in {"exit", "dead"}
            /\ (spc[s] = "exit" /\ spc'[s] = "dead") =>
                  /\ is_running' = FALSE
                  /\ events' = Append(events, StatusEvent(StreamTask(s), "Stopped"))
            /\ spc[s] = "dead" => spc'[s] = "dead"]_vars
    /\ [](\A i, j \in 1..Len(events) :
            (i < j /\ IsType(events[i], "error") /\ events[j].by = events[i].by)
                => IsType(events[j], "status"))
    /\ [](\A s \in Sessions : \A i \in 1..Len(events) :
            (/\ spc[s] = "dead"
             /\ events[i].by = StreamTask(s)
             /\ \A j \in (i + 1)..Len(events) : events[j].by # StreamTask(s))
                => events[i] = StatusEvent(StreamTask(s), "Stopped"))

C8_Witness ==
    \E s \in Sessions :
        /\ spc[s] = "dead"
        /\ Len(events) >= 3
        /\ events[Len(events)] = StatusEvent(StreamTask(s), "Stopped")
        /\ events[Len(events) - 2].type = "error"
        /\ events[Len(events) - 2].by = StreamTask(s)
        /\ events[Len(events) - 2].msg \in ExcTexts

\* C9: an exception raised by the diarization request or during alignment
\* leaves run_diarization at the head of its while loop with is_running
\* unchanged, and from there, while is_running is true, the thread goes on to
\* sleep for a further tick.
C9_DiarizationErrorKeepsLoop ==
    [][\A d \in Sessions :
         /\ diar_errors'[d] > diar_errors[d] =>
               dpc'[d] = "loop" /\ is_running' = is_running
         /\ (dpc[d] = "loop" /\ dpc'[d] # "loop") =>
               dpc'[d] = IF is_running THEN "sleep" ELSE "dead"]_vars

C9_Witness ==
    \E d \in Sessions :
        diar_errors[d] > 0 /\ dpc[d] \in {"audio", "recognize", "align"}

\* C10: a start command received while is_running is true changes nothing: no
\* thread is created, the ledgers and caption_id are not reset, no event is
\* emitted and the handler returns at once.
C10_StartWhileRunningIsNoop ==
    [][(nstart' = nstart + 1 /\ is_running) =>
          UNCHANGED <<appVars, streamVars, diarVars, sinkVars, hpc, nsess>>]_vars

C10_Witness ==
    nstart > nsess /\ is_running /\ hpc = "idle"

\* a is an initial part of b
IsPrefix(a, b) == Len(a) <= Len(b) /\ SubSeq(b, 1, Len(a)) = a

\* C11: a stop command handled while is_running is false leaves is_running
\* false and changes neither the ledgers, nor caption_id, nor any thread: the
\* session state after a second stop is the state after the first.
C11_StopWhileStoppedIsNoop ==
    [][/\ (nstop' = nstop + 1 /\ ~is_running) =>
             /\ ~is_running'
             /\ UNCHANGED <<appVars, streamVars, diarVars>>
       /\ (hpc = "stop_join" /\ hpc' = "idle") =>
             UNCHANGED <<appVars, streamVars, diarVars>>]_vars

\* two stop commands were handled since the start, the later one with a thread
\* of the session still alive
C11_Witness ==
    /\ hpc = "idle" /\ ~is_running /\ dpc[1] = "sleep"
    /\ Len(SelectSeq(events, LAMBDA e : e = StatusEvent(Handler, "Stopped"))) = 2

\* C12: within a session every step leaves the old contents of audio_buffer
\* and of transcript_buffer as an initial part of the new contents, the steps
\* of an effective start that rebind the two fields (lines 355, 356) excepted;
\* no list object ever loses or changes an entry.
C12_LedgersAppendOnly ==
    [][/\ ~(hpc \in {"start_355", "start_356"} /\ hpc' # hpc) =>
             /\ IsPrefix(audio_buffer, audio_buffer')
             /\ IsPrefix(ListOf(transcript_buffer), ListOf(transcript_buffer)')
       /\ \A l \in DOMAIN lists : IsPrefix(lists[l], lists'[l])]_vars

C12_Witness ==
    /\ Len(audio_buffer) = 2
    /\ audio_buffer[1] # audio_buffer[2]
    /\ Len(ListOf(transcript_buffer)) = 2

AllExited == \A k \in Sessions : ~Alive(spc[k]) /\ ~Alive(dpc[k])

\* C13: after a stop command, unless a start follows it, the stream_audio
\* thread and the run_diarization thread of every session eventually exit,
\* given that responses keep arriving and sleeps end.
C13_StopEndsBothLoops ==
    stop_pending ~> (AllExited \/ ~stop_pending)

\* stop_streaming returned while the stream thread of the session was alive
\* (the thread emitted an event afterwards), and both threads have exited
C13_Witness ==
    /\ stop_pending /\ nsess = 1 /\ spc[1] = "dead" /\ dpc[1] = "dead"
    /\ \E i \in 1..Len(events) :
          /\ events[i] = StatusEvent(Handler, "Stopped")
          /\ \E j \in (i + 1)..Len(events) : events[j].by = StreamTask(1)

\* C14: for an integer gain amplify_audio returns as many samples as it was
\* given, the i-th being sample i times the gain, set to 32767 when the
\* product is above 32767 and to -32768 when it is below -32768.
C14_AmplifyClamps ==
    (amplify_done /\ gain.den = 1) =>
        LET ins == Unpack(audio_data)
            outs == Unpack(amplified)
        IN  /\ Len(amplified) = Len(audio_data)
            /\ Len(outs) = Len(ins)
            /\ \A i \in 1..Len(ins) :
                  LET product == ins[i] * gain.num
                  IN  outs[i] = IF product > 32767 THEN 32767
                                ELSE IF product < -32768 THEN -32768
                                ELSE product

\* a call with one product above the range, one below it
C14_Witness ==
    /\ amplify_done /\ gain.den = 1 /\ Len(audio_data) = 4
    /\ Unpack(audio_data)[1] * gain.num > 32767
    /\ Unpack(audio_data)[2] * gain.num < -32768
    /\ Unpack(amplified) = <<32767, -32768>>

\* every segment of the ledger is in the processed set of thread d
AllProcessed(d) ==
    \A i \in 1..Len(ListOf(transcript_buffer)) :
        ListOf(transcript_buffer)[i].id \in processed_captions[d]

\* C15: a tick that finds every segment of transcript_buffer in the processed
\* set (an empty ledger included) goes straight back to the head of the loop:
\* no diarization request, no event, no change of the processed set.
C15_NothingUnprocessedSkipsTick ==
    [][\A d \in Sessions :
         (dpc[d] = "sleep" /\ dpc'[d] # "sleep" /\ AllProcessed(d)) =>
            /\ dpc'[d] = "loop"
            /\ diar_calls' = diar_calls
            /\ events' = events
            /\ processed_captions' = processed_captions]_vars

\* a tick was skipped with a ledger whose segments were all resolved by an
\* earlier tick of the same thread
C15_Witness ==
    \E d \in Sessions :
        /\ dpc[d] = "loop" /\ audio_len[d] = -1
        /\ processed_captions[d] # {}
        /\ ListOf(transcript_buffer) # <<>>
        /\ AllProcessed(d)

\* C18: a final result handled by stream_audio takes the thread through lines
\* 418, 419, 420 and 425 in this order; line 420 appends exactly one segment
\* to transcript_buffer and line 425 emits exactly one `final` event, both with
\* the id read from caption_id at line 418 and with the result's transcript;
\* nothing else is appended or emitted by these steps.
C18_FinalAppendsThenEmits ==
    [][\A s \in Sessions :
         /\ (spc[s] = "f418" /\ spc'[s] # "f418") =>
               /\ spc'[s] = "f419r"
               /\ s_caption_id'[s] = caption_id
               /\ s_transcript'[s] = s_transcript[s]
               /\ UNCHANGED <<lists, transcript_buffer, events>>
         /\ (spc[s] \in {"f419r", "f419w"} /\ spc'[s] # spc[s]) =>
               /\ spc'[s] = IF spc[s] = "f419r" THEN "f419w" ELSE "f420"
               /\ s_caption_id'[s] = s_caption_id[s]
               /\ s_transcript'[s] = s_transcript[s]
               /\ UNCHANGED <<lists, transcript_buffer, events>>
         /\ (spc[s] = "f420" /\ spc'[s] # "f420") =>
               /\ spc'[s] = "f425"
               /\ lists' = [lists EXCEPT ![transcript_buffer] =
                              Append(@, [id |-> s_caption_id[s],
                                         text |-> s_transcript[s]])]
               /\ s_caption_id'[s] = s_caption_id[s]
               /\ s_transcript'[s] = s_transcript[s]
               /\ UNCHANGED <<transcript_buffer, events>>
         /\ (spc[s] = "f425" /\ spc'[s] # "f425") =>
               /\ spc'[s] = "wait"
               /\ Len(events') = Len(events) + 1
               /\ SubSeq(events', 1, Len(events)) = events
               /\ events'[Len(events')].type = "final"
               /\ events'[Len(events')].id = s_caption_id[s]
               /\ events'[Len(events')].text = s_transcript[s]
               /\ UNCHANGED <<lists, transcript_buffer>>]_vars

\* two final results were handled: the ledger holds two segments and the
\* session's two final events carry their ids and texts, in the same order
C18_Witness ==
    /\ Len(ListOf(transcript_buffer)) = 2
    /\ Len(Finals) = 2
    /\ \A i \in 1..2 :
          /\ Finals[i].id = ListOf(transcript_buffer)[i].id
          /\ Finals[i].text = ListOf(transcript_buffer)[i].text
          /\ Finals[i].text \in Transcripts
    /\ \A s \in Sessions : spc[s] \in {"none", "wait", "dead"}

\* C19: a non-final result handled by stream_audio emits exactly one `interim`
\* event with the result's transcript (line 428) and changes neither
\* caption_id, nor transcript_buffer, nor is_running.
C19_InterimOnlyEmits ==
    [][\A s \in Sessions :
         (spc[s] = "i428" /\ spc'[s] # "i428") =>
            /\ spc'[s] = "wait"
            /\ Len(events') = Len(events) + 1
            /\ SubSeq(events', 1, Len(events)) = events
            /\ events'[Len(events')].type = "interim"
            /\ events'[Len(events')].by = StreamTask(s)
            /\ events'[Len(events')].text = s_transcript[s]
            /\ UNCHANGED <<caption_id, transcript_buffer, lists, is_running>>]_vars

C19_Witness ==
    /\ events # <<>>
    /\ events[Len(events)].type = "interim"
    /\ events[Len(events)].text \in Transcripts
    /\ \A s \in Sessions : spc[s] \in {"none", "wait"}
    /\ caption_id = 0 /\ ListOf(transcript_buffer) = <<>> /\ is_running

\* C20: when recognize_google raised UnknownValueError, the except clause
\* puts nothing on text_queue and emits nothing, the thread is back at the
\* while, and from the while it listens again if is_running is true.
C20_UnintelligibleIsSkipped ==
    [][\A t \in WebWorkers :
         /\ (apc[t] = "handle" /\ heard[t] = "UnknownValueError"
               /\ apc'[t] # "handle") =>
               /\ text_queue' = text_queue
               /\ web_events' = web_events
               /\ web_is_running' = web_is_running
               /\ apc'[t] = "while"
         /\ (apc[t] = "while" /\ apc'[t] # "while" /\ web_is_running) =>
               apc'[t] = "listen"]_vars

\* unintelligible audio was heard and skipped, and the thread listens again
C20_Witness ==
    \E t \in WebWorkers :
        /\ apc[t] = "listen"
        /\ heard[t] = "UnknownValueError"
        /\ nlisten = 1
        /\ text_queue = <<>>
        /\ web_events = <<WebEvent("status", "Listening...")>>

\* C17: once __exit__ has set closed and put the sentinel, the generator
\* ends: it is not left waiting on the queue and it yields no chunk for ever
\* after, wherever it was when closed was set.
C17_CloseEndsGenerator == (mpc = "exited") ~> (gpc = "done")

\* closed was set while the generator was in the middle of the drain; it has
\* ended, after yielding a chunk
C17_Witness ==
    /\ mpc = "exited"
    /\ gpc_at_close = "drain"
    /\ gpc = "done"
    /\ yielded # <<>>

C21_CursorNeverDecreases ==
    [][(a_pc = "word" /\ Len(a_hits') > Len(a_hits)) =>
          a_word_idx' >= a_word_idx]_vars

\* the first three characters of s, all of s when it is shorter
FirstThree(s) == SubSeq(s, 1, Min2(3, Len(s)))
\* the window indices whose word has the first three characters of token t
SameFirstThree(t) ==
    {wi \in Window(a_word_list, a_word_idx) :
        FirstThree(a_word_list[wi + 1].word) = FirstThree(t)}

\* C22: a token, lowercased and stripped, matches a timeline word exactly
\* when the first three characters of the word equal the first three
\* characters of the token, whatever their lengths: the token's turn hits the
\* first such word of the window, or nothing when there is none; a token
\* that is empty after stripping casts no vote.
C22_MatchIsEqualFirstThree ==
    [][(a_pc = "word" /\ a_k <= Len(a_item_words)) =>
          IF Clean(a_item_words[a_k]) = <<>>
               \/ SameFirstThree(Clean(a_item_words[a_k])) = {}
          THEN a_hits' = a_hits /\ a_votes' = a_votes
          ELSE /\ Len(a_hits') = Len(a_hits) + 1
               /\ a_hits'[Len(a_hits')].wi \in SameFirstThree(Clean(a_item_words[a_k]))
               /\ \A wi \in SameFirstThree(Clean(a_item_words[a_k])) :
                     a_hits'[Len(a_hits')].wi <= wi]_vars

\* the timeline indices i with max(0, cursor-5) <= i < min(len, cursor+20)
\* whose word starts with the first three characters of token t
Examined(t) ==
    {i \in 0..(Len(a_word_list) - 1) :
        /\ i >= a_word_idx - 5
        /\ i < a_word_idx + 20
        /\ StartsWith(a_word_list[i + 1].word, Prefix3(t))}
RECURSIVE VoteCount(_)
VoteCount(votes) == IF votes = <<>> THEN 0 ELSE Head(votes).n + VoteCount(Tail(votes))

\* C23: the turn of a token hits the lowest index i with
\* max(0, cursor-5) <= i < min(len(timeline), cursor+20) whose word matches,
\* casts one vote for its speaker and sets the cursor to i + 1, or changes
\* nothing when no such index exists; the cursor is 0 when the tick's loop
\* begins and no other step changes it, a skipped segment included.
C23_WindowFirstMatch ==
    [][/\ (a_pc = "start" /\ a_pc' # "start") => a_word_idx' = 0
       /\ a_pc \in {"for", "vote"} => a_word_idx' = a_word_idx
       /\ (a_pc = "word" /\ a_k <= Len(a_item_words)) =>
             IF Clean(a_item_words[a_k]) = <<>>
                  \/ Examined(Clean(a_item_words[a_k])) = {}
             THEN /\ a_word_idx' = a_word_idx
                  /\ a_votes' = a_votes
                  /\ a_hits' = a_hits
             ELSE /\ \A i \in Examined(Clean(a_item_words[a_k])) : a_word_idx' - 1 <= i
                  /\ a_word_idx' - 1 \in Examined(Clean(a_item_words[a_k]))
                  /\ VoteCount(a_votes') = VoteCount(a_votes) + 1
                  /\ a_hits' = Append(a_hits,
                        [wi |-> a_word_idx' - 1,
                         speaker |-> a_word_list[a_word_idx'].speaker])]_vars

\* segment 0 was skipped as processed with the cursor left at 0; "hello" was
\* then found at index 19, the last one of the window, and "world" at 20
C23_Witness ==
    /\ a_pos = 2
    /\ 0 \in a_processed
    /\ Len(a_hits) = 2
    /\ a_hits[1].wi = 19 /\ a_hits[2].wi = 20
    /\ a_word_idx = 21

\* the number of hits of the item that voted for speaker s
HitsFor(s) == Cardinality({k \in 1..Len(a_hits) : a_hits[k].speaker = s})
\* the position of the first hit that voted for speaker s
FirstHitFor(s) == CHOOSE k \in 1..Len(a_hits) :
                      /\ a_hits[k].speaker = s
                      /\ \A j \in 1..(k - 1) : a_hits[j].speaker # s

\* C24: the speaker of a segment's speaker_update got at least as many votes
\* as every other tag, and every other tag with as many votes got its first
\* vote later in the scan.
C24_MostVotesFirstSeenWins ==
    [][(a_pc = "vote" /\ Len(a_updates') > Len(a_updates)) =>
          LET speaker == a_updates'[Len(a_updates')].speaker
              tags == {a_hits[k].speaker : k \in 1..Len(a_hits)}
          IN  /\ a_hits # <<>>
              /\ speaker \in tags
              /\ \A s \in tags : HitsFor(s) <= HitsFor(speaker)
              /\ \A s \in tags \ {speaker} :
                    HitsFor(s) = HitsFor(speaker) => FirstHitFor(speaker) < FirstHitFor(s)]_vars

\* "yo hi" against [(yo,2),(hi,1)]: one vote each, and tag 2, voted first,
\* is the speaker of the update
C24_Witness ==
    /\ Len(a_updates) = 1
    /\ a_updates[1].speaker = 2
    /\ Len(a_hits) = 2
    /\ a_hits[1].speaker = 2 /\ a_hits[2].speaker = 1

\* C25: a speaker_update with speaker tag s carries the color and the name
\* at one and the same palette index, the index i of 0..4 with
\* s - 1 = 5 * q + i for an integer q.
C25_PaletteIndexInRange ==
    \A k \in 1..Len(a_updates) :
        \E i \in 0..4 :
            /\ \E q \in -4..4 : a_updates[k].speaker - 1 = 5 * q + i
            /\ a_updates[k].color = speaker_colors[i + 1]
            /\ a_updates[k].name = speaker_names[i + 1]

\* the update of a segment whose votes went to tag -1, at palette index 3
C25_Witness ==
    /\ Len(a_updates) = 1
    /\ a_updates[1].speaker = -1
    /\ a_updates[1].name = "Speaker 4"
    /\ a_updates[1].color = speaker_colors[4]

\* thread d takes a step of its for loop at an item that is not processed
AtUnprocessed(d) ==
    /\ dpc[d] = "align"
    /\ item_iter[d].pos <= Len(ListOf(item_iter[d].list))
    /\ ListOf(item_iter[d].list)[item_iter[d].pos].id \notin processed_captions[d]
    /\ (item_iter'[d] # item_iter[d] \/ dpc'[d] # "align")
\* no token of the text matches a word of thread d's window
NoTokenMatches(d, text) ==
    \A t \in VotingTokens(text) :
        MatchesOf(t, word_list[d]) \cap Window(word_list[d], word_idx[d]) = {}

C27_ForwardedIsPrefix == IsPrefix(forwarded, audio_list)

\* one chunk was forwarded and a second one, with other bytes, is appended
\* and not yet forwarded
C27_Witness ==
    /\ Len(forwarded) = 1
    /\ Len(audio_list) = 2
    /\ audio_list[1] # audio_list[2]
    /\ fpc = "yield"

\* a step of run_diarization of session d between the test of line 443 and
\* the end of the for loop of line 498
DiarStep(d) ==
    /\ dpc[d] \in {"loop", "sleep", "audio", "recognize", "align"}
    /\ dpc'[d] # dpc[d] \/ item_iter'[d] # item_iter[d]

\* C28: no step of a reconciliation tick changes audio_buffer, the ledger
\* (the list transcript_buffer is bound to and every stored segment),
\* caption_id or is_running; it emits at most one event, a speaker_update,
\* and its processed set only grows.
C28_TickOnlyEmitsAndMarks ==
    [][\A d \in Sessions :
          DiarStep(d) =>
              /\ UNCHANGED <<audio_buffer, transcript_buffer, lists, caption_id,
                             is_running>>
              /\ \/ events' = events
                 \/ /\ Len(events') = Len(events) + 1
                    /\ SubSeq(events', 1, Len(events)) = events
                    /\ events'[Len(events')].type = "speaker_update"
              /\ processed_captions[d] \subseteq processed_captions'[d]]_vars

\* a tick has attributed a segment while the ledger and the audio are there
C28_Witness ==
    \E d \in Sessions :
        /\ dpc[d] = "align"
        /\ processed_captions[d] # {}
        /\ ListOf(transcript_buffer) # <<>>
        /\ audio_buffer # <<>>
        /\ \E i \in 1..Len(events) :
              events[i].type = "speaker_update" /\ events[i].by = DiarTask(d)

\* stream task s is between lines 418 and 425 of a final result
InFinal(s) == spc[s] \in {"f418", "f419r", "f419w", "f420", "f425"}

\* the entry at position i of the ledger has id i, and caption_id counts them
IdsArePositions ==
    LET buf == ListOf(transcript_buffer)
    IN  /\ caption_id = Len(buf)
        /\ \A i \in 1..Len(buf) : buf[i].id = i - 1

\* C29: whenever no final result is being processed (and no start command
\* is between lines 354 and 363), caption_id is the number of entries of
\* transcript_buffer and the entry at position i has id i.
C29_IdsArePositions ==
    (hpc = "idle" /\ \A s \in Sessions : ~InFinal(s)) => IdsArePositions

\* stream task s takes line 435 while is_running is true
TurnsOff(s) ==
    /\ spc[s] = "exit"
    /\ spc'[s] = "dead"
    /\ is_running
    /\ ~is_running'

\* C30: the only stream task that turns is_running off is the one of the
\* session that is_running belongs to, the last one started.
C30_OnlyOwnTaskTurnsOff ==
    [][\A s \in Sessions : TurnsOff(s) => s = nsess]_vars

\* C31: once is_running is false, and until line 354 sets it again, each
\* run_diarization begins at most one more tick.
C31_AtMostOneTickAfterOff == \A d \in Sessions : off_ticks[d] <= 1

\* a speaker_update of a tick begun after the stop command's 'Stopped'
C31_Witness ==
    \E d \in Sessions :
        /\ off_ticks[d] = 1
        /\ ~is_running
        /\ \E i, j \in 1..Len(events) :
              /\ i < j
              /\ events[i].type = "status" /\ events[i].msg = "Stopped"
              /\ events[j].type = "speaker_update" /\ events[j].by = DiarTask(d)

RECURSIVE Concat(_)
\* the bytes of a sequence of byte strings, in order
Concat(ss) == IF ss = <<>> THEN <<>> ELSE Head(ss) \o Concat(Tail(ss))

RECURSIVE QueuedBytes(_)
\* the bytes of the frames waiting in the queue, in order
QueuedBytes(q) ==
    IF q = <<>> THEN <<>>
    ELSE (IF Head(q) = Sentinel THEN <<>> ELSE Head(q).bytes) \o QueuedBytes(Tail(q))

\* C32: the bytes yielded by the generator are at every moment the first
\* bytes pushed by the callback, in push order; until the generator has
\* ended (sentinel dequeued or closed seen) every pushed byte is yielded,
\* collected in the drain or still in the queue, so bytes are lost only at
\* the tail.
C32_YieldedIsPrefixOfPushed ==
    /\ IsPrefix(Concat(yielded), Concat(pushed))
    /\ gpc # "done" =>
          Concat(yielded) \o Concat(gen_data) \o QueuedBytes(_buff) = Concat(pushed)

\* two frames were coalesced into one chunk, and a later frame was lost
\* when the generator ended
C32_Witness ==
    /\ gpc = "done"
    /\ \E i \in 1..Len(yielded) : Len(yielded[i]) = 2
    /\ Len(Concat(yielded)) < Len(Concat(pushed))
====
